---- MODULE Spec2Model ----
(***************************************************************************)
(* A model of the string-keyed property reflection layer in                *)
(* include/meta/meta.h and include/meta/meta_detail.h, and of the program  *)
(* in tests/tests.cpp that uses it.                                        *)
(*                                                                         *)
(* Texts (std::string, std::string_view) are sequences of one-character    *)
(* strings, so that hashName and the stream conversions can be computed    *)
(* character by character as the code computes them.                       *)
(*                                                                         *)
(* Two specifications are given:                                           *)
(*   Spec     static initialisation of the MetaBuilders of NumClasses      *)
(*            classes by arbitrary addBase/addProperty chains, followed by *)
(*            getListOfProperties calls from main;                         *)
(*   SpecRun  the program of tests/tests.cpp after static initialisation,  *)
(*            driven by arbitrary get/set calls on its two objects.        *)
(***************************************************************************)
EXTENDS Integers, Sequences, FiniteSets, TLC

VARIABLES
  builders,   \* class -> MetaBuilder [m_properties, m_bases]
  declared,   \* history: class -> sequence of the MetaEntry values passed to insert
  phase,      \* "init" during static initialisation, "main" afterwards
  objects,    \* object id -> the object's class and member fields
  outValue,   \* the caller's output string (testValue in main)
  outNames,   \* the caller's std::set<std::string> for getListOfProperties
  call,       \* the last call made from main
  result      \* the bool returned by the last get/set

vars == <<builders, declared, phase, objects, outValue, outNames, call, result>>

(***************************************************************************)
(* Bounds of the model.                                                    *)
(***************************************************************************)
NumClasses == 3     \* classes with a MetaBuilder
MaxBases == 2       \* addBase calls per builder
MaxProps == 2       \* addProperty calls during one static initialisation
MaxLen == 1         \* length of the texts over Alphabet that main passes to set

Classes == 1..NumClasses

\* The two classes of tests.cpp.
Obj == 1
AnotherObj == 2

(***************************************************************************)
(* Texts.                                                                  *)
(***************************************************************************)
TextName == <<"n", "a", "m", "e">>
TextNmae == <<"n", "m", "a", "e">>
TextUpperName == <<"N", "a", "m", "e">>
TextCount == <<"c", "o", "u", "n", "t">>
TextVisible == <<"v", "i", "s", "i", "b", "l", "e">>

TextTrue == <<"t", "r", "u", "e">>
TextFalse == <<"f", "a", "l", "s", "e">>
TextOne == <<"1">>
TextObj1 == <<"o", "b", "j", "1">>
TextAnotherObj1 == <<"a", "n", "o", "t", "h", "e", "r", "O", "b", "j", "1">>

DigitChars == <<"0", "1", "2", "3", "4", "5", "6", "7", "8", "9">>
Digits == {DigitChars[i] : i \in 1..10}

\* The character code of the characters that occur in property names.
Code(c) ==
  CASE c = "N" -> 78
    [] c = "a" -> 97
    [] c = "b" -> 98
    [] c = "c" -> 99
    [] c = "e" -> 101
    [] c = "i" -> 105
    [] c = "l" -> 108
    [] c = "m" -> 109
    [] c = "n" -> 110
    [] c = "o" -> 111
    [] c = "s" -> 115
    [] c = "t" -> 116
    [] c = "u" -> 117
    [] c = "v" -> 118

RECURSIVE hashLoop(_, _, _)
\* meta.h:46-48, the loop from index i (1-based here) to the end of name.
hashLoop(name, i, hash) ==
  IF i > Len(name) THEN hash
  ELSE hashLoop(name, i + 1, hash + 33 * Code(name[i]))

\* meta.h:40-51. The sums stay far below 2^64 for the names of the model.
hashName(name) ==
  IF name = <<>> THEN 5381
  ELSE hashLoop(name, 2, Code(name[1]))

(***************************************************************************)
(* Value Converter: meta_detail.h.  A conversion returns what the C++      *)
(* function returns (ok) together with what it leaves in *outValue.        *)
(***************************************************************************)
Types == {"string", "int", "bool"}

\* std::isspace for the characters of the model.
IsSpace(c) == c = " "

RECURSIVE SkipWs(_)
\* The sentry of a formatted input function: leading whitespace is skipped.
SkipWs(t) == IF t # <<>> /\ IsSpace(t[1]) THEN SkipWs(Tail(t)) ELSE t

RECURSIVE TakeWhile(_, _)
TakeWhile(t, S) ==
  IF t # <<>> /\ t[1] \in S THEN <<t[1]>> \o TakeWhile(Tail(t), S) ELSE <<>>

RECURSIVE TakeToken(_)
\* operator>>(istream&, std::string&): characters up to the next whitespace.
TakeToken(t) ==
  IF t # <<>> /\ ~IsSpace(t[1]) THEN <<t[1]>> \o TakeToken(Tail(t)) ELSE <<>>

DigitValue(c) == CHOOSE d \in 0..9 : DigitChars[d + 1] = c

RECURSIVE DigitsToNat(_, _)
DigitsToNat(ds, acc) ==
  IF ds = <<>> THEN acc ELSE DigitsToNat(Tail(ds), acc * 10 + DigitValue(ds[1]))

RECURSIVE NatToText(_)
NatToText(n) ==
  IF n < 10 THEN <<DigitChars[n + 1]>>
  ELSE NatToText(n \div 10) \o <<DigitChars[(n % 10) + 1]>>

\* operator<<(ostream&, int): decimal, with a minus sign for negatives.
IntToText(v) == IF v < 0 THEN <<"-">> \o NatToText(0 - v) ELSE NatToText(v)

\* The values an int that was never written may hold when it is read
\* ("Type x;" at meta.h:110 is left untouched when the stream's sentry fails).
IndeterminateInts == {0 - 1, 0, 7}

\* operator>>(istream&, int&) on a fresh stringstream over t: the set of values
\* x may hold afterwards.  An empty or all-whitespace text fails the sentry and
\* leaves x unwritten; otherwise num_get reads an optional sign and the digits
\* that follow, and stores 0 when there are none.
StreamReadInt(t) ==
  LET s == SkipWs(t)
      signed == s # <<>> /\ s[1] \in {"+", "-"}
      body == IF signed THEN Tail(s) ELSE s
      ds == TakeWhile(body, Digits)
      mag == DigitsToNat(ds, 0)
  IN  IF s = <<>> THEN IndeterminateInts
      ELSE IF ds = <<>> THEN {0}
      ELSE IF signed /\ s[1] = "-" THEN {0 - mag}
      ELSE {mag}

\* operator>>(istream&, std::string&) into a default-constructed string.
StreamReadString(t) == TakeToken(SkipWs(t))

\* meta_detail.h:34-40, MetaConverter<T>::ToString for T = std::string, int.
MetaConverter_ToString(T, inValue) ==
  [ok |-> TRUE, out |-> IF T = "int" THEN IntToText(inValue) ELSE inValue]

\* meta_detail.h:42-47, MetaConverter<T>::FromString for T = std::string, int:
\* the set of outcomes, each the returned bool and the value left in *outValue.
MetaConverter_FromString(T, inValue) ==
  IF T = "int" THEN {[ok |-> TRUE, x |-> v] : v \in StreamReadInt(inValue)}
  ELSE {[ok |-> TRUE, x |-> StreamReadString(inValue)]}

\* meta_detail.h:54-57, MetaConverter<bool>::ToString.
MetaConverterBool_ToString(inValue) ==
  [ok |-> TRUE, out |-> IF inValue THEN TextTrue ELSE TextFalse]

\* A converter that accepts only "true".
MetaConverterBool_FromString_OnlyTrue(inValue) ==
  {[ok |-> TRUE, x |-> (inValue = TextTrue)]}

\* meta_detail.h:59-62, MetaConverter<bool>::FromString.
MetaConverterBool_FromString(inValue) ==
  {[ok |-> TRUE, x |-> (inValue = TextTrue \/ inValue = TextOne)]}

\* Template selection: the bool specialisation (meta_detail.h:52-53) or the
\* primary template.
ConvertToString(T, inValue) ==
  IF T = "bool" THEN MetaConverterBool_ToString(inValue)
  ELSE MetaConverter_ToString(T, inValue)

ConvertFromString(T, inValue) ==
  IF T = "bool" THEN MetaConverterBool_FromString(inValue)
  ELSE MetaConverter_FromString(T, inValue)

(***************************************************************************)
(* Objects.  Every class of the model carries the members of tests.cpp:    *)
(* m_name, m_count and m_visible, read and written only through the        *)
(* accessor methods.                                                       *)
(***************************************************************************)
nullptr == "nullptr"

\* tests.cpp:30 and tests.cpp:58, the constructors.
NewObject(cls, name) ==
  [cls |-> cls, m_name |-> name, m_count |-> 0, m_visible |-> FALSE]

\* (obj->*getter)() : tests.cpp:32-34, 39-41, 62-64.
CallGetter(obj, getter) ==
  CASE getter = "getName" -> obj.m_name
    [] getter = "getCount" -> obj.m_count
    [] getter = "isVisible" -> obj.m_visible

\* (obj->*setter)(x) : tests.cpp:36-38, 65-67, and the like for a string member.
CallSetter(obj, setter, x) ==
  CASE setter = "setName" -> [obj EXCEPT !.m_name = x]
    [] setter = "setCount" -> [obj EXCEPT !.m_count = x]
    [] setter = "setVisible" -> [obj EXCEPT !.m_visible = x]

\* The accessors a class offers for a member of type T.
GetterFor(T) ==
  CASE T = "string" -> "getName" [] T = "int" -> "getCount" [] T = "bool" -> "isVisible"

SetterFor(T) ==
  CASE T = "string" -> "setName" [] T = "int" -> "setCount" [] T = "bool" -> "setVisible"

(***************************************************************************)
(* Typed Property and type erasure: meta.h:62-158.                         *)
(***************************************************************************)
\* meta.h:135-138, Property<C, T>::Property.
Property(C, T, getter, setter) ==
  [ClassType |-> C, Type |-> T, getter |-> getter, setter |-> setter]

\* meta.h:94-102, Invoker::get: the returned bool and the new *outValue.
Invoker_get(prop, obj) ==
  ConvertToString(prop.Type, CallGetter(obj, prop.getter))

\* meta.h:104-117, Invoker::set: the set of outcomes, each the returned bool
\* and the object afterwards.
Invoker_set(prop, obj, value) ==
  IF prop.setter = nullptr THEN {[ok |-> FALSE, obj |-> obj]}
  ELSE {IF r.ok THEN [ok |-> TRUE, obj |-> CallSetter(obj, prop.setter, r.x)]
                ELSE [ok |-> FALSE, obj |-> obj] : r \in ConvertFromString(prop.Type, value)}

\* meta.h:142-145, Property::get.
Property_get(prop, obj) == Invoker_get(prop, obj)

\* meta.h:147-150, Property::set.
Property_set(prop, obj, value) == Invoker_set(prop, obj, value)

\* meta.h:152-154, Property::isReadOnly.
isReadOnly(prop) == prop.setter = nullptr

\* meta.h:160-164.
PropertyEditorType == {"String", "Integer", "Bool"}

\* meta.h:173-176, MetaEntry::MetaEntry.
MetaEntry(name, description, editorType, prop) ==
  [name |-> name, description |-> description, editorType |-> editorType, prop |-> prop]

(***************************************************************************)
(* Registry: meta.h:180-244.  A MetaBuilder is its two members; a base is  *)
(* held by the class whose static builder the pointer names, and bs maps   *)
(* every class to its builder.                                             *)
(***************************************************************************)
\* meta.h:278, MetaBuilder {}.
EmptyBuilder == [m_properties |-> [k \in {} |-> 0], m_bases |-> <<>>]

\* meta.h:184-187.
addBase(builder, metaBuilder) ==
  [builder EXCEPT !.m_bases = Append(@, metaBuilder)]

\* std::unordered_map::insert as called at meta.h:193 and meta.h:205: a key
\* already in the map keeps its value.
Insert(properties, key, entry) ==
  IF key \in DOMAIN properties THEN properties
  ELSE [k \in DOMAIN properties \cup {key} |-> IF k = key THEN entry ELSE properties[k]]

\* meta.h:189-198, addProperty<C, T>(name, description, editorType, getter).
addPropertyGetter(builder, C, T, name, description, editorType, getter) ==
  [builder EXCEPT !.m_properties =
     Insert(@, hashName(name),
            MetaEntry(name, description, editorType, Property(C, T, getter, nullptr)))]

\* meta.h:200-209, addProperty<C, T>(name, description, editorType, getter, setter).
addPropertyGetterSetter(builder, C, T, name, description, editorType, getter, setter) ==
  [builder EXCEPT !.m_properties =
     Insert(@, hashName(name),
            MetaEntry(name, description, editorType, Property(C, T, getter, setter)))]

RECURSIVE getProperty(_, _, _)
RECURSIVE getPropertyInBases(_, _, _)
\* meta.h:211-224: <<>> for nullptr, <<entry>> for a pointer to entry.
getProperty(bs, c, name) ==
  IF hashName(name) \in DOMAIN bs[c].m_properties
  THEN <<bs[c].m_properties[hashName(name)]>>
  ELSE getPropertyInBases(bs, bs[c].m_bases, name)

\* meta.h:217-223, the loop over m_bases, from the front of bases.
getPropertyInBases(bs, bases, name) ==
  IF bases = <<>> THEN <<>>
  ELSE LET entry == getProperty(bs, Head(bases), name)
       IN  IF entry # <<>> THEN entry ELSE getPropertyInBases(bs, Tail(bases), name)

RECURSIVE getListOfProperties(_, _, _)
RECURSIVE getListOfBases(_, _, _)
\* meta.h:226-236: the contents of *outNames afterwards.
getListOfProperties(bs, c, names) ==
  getListOfBases(bs, bs[c].m_bases,
                 names \cup {bs[c].m_properties[k].name : k \in DOMAIN bs[c].m_properties})

\* meta.h:233-235, the loop over m_bases.
getListOfBases(bs, bases, names) ==
  IF bases = <<>> THEN names
  ELSE getListOfBases(bs, Tail(bases), getListOfProperties(bs, Head(bases), names))

(***************************************************************************)
(* Reflectable object: the get and set that DEFINE_META_OBJECT gives a     *)
(* class, dispatched on the object's own class.                            *)
(***************************************************************************)
\* A get that clears the caller's string before it looks the name up.
MetaObject_get_Clearing(bs, obj, name, out) ==
  LET entry == getProperty(bs, obj.cls, name)
  IN  IF entry = <<>> THEN [ok |-> FALSE, out |-> <<>>]
      ELSE Property_get(entry[1].prop, obj)

\* meta.h:261-267: the returned bool and the caller's string afterwards.
MetaObject_get(bs, obj, name, out) ==
  LET entry == getProperty(bs, obj.cls, name)
  IN  IF entry = <<>> THEN [ok |-> FALSE, out |-> out]
      ELSE Property_get(entry[1].prop, obj)

\* meta.h:268-274: the outcomes, each the returned bool and the object afterwards.
MetaObject_set(bs, obj, name, value) ==
  LET entry == getProperty(bs, obj.cls, name)
  IN  IF entry = <<>> THEN {[ok |-> FALSE, obj |-> obj]}
      ELSE Property_set(entry[1].prop, obj, value)

(***************************************************************************)
(* Inputs.                                                                 *)
(***************************************************************************)
\* Names given to addProperty in Spec: two names with one hashName, and a third.
RegNames == {TextName, TextNmae, TextCount}

\* Names asked for by get and set.
LookupNames == {TextName, TextNmae, TextUpperName, TextCount, TextVisible}

\* The description passed by the k-th addProperty call of a builder chain: each
\* call of a chain passes a description of its own.
DescriptionFor(k) == "description " \o ToString(k)

\* The editor kind a declaration of a T-valued property passes in Spec.
EditorFor(T) ==
  CASE T = "string" -> "String" [] T = "int" -> "Integer" [] T = "bool" -> "Bool"

Alphabet == {"a", " ", "1"}

RECURSIVE TextsUpTo(_)
TextsUpTo(n) ==
  IF n = 0 THEN {<<>>}
  ELSE LET shorter == TextsUpTo(n - 1)
       IN  shorter \cup {Append(t, ch) : t \in shorter, ch \in Alphabet}

\* Texts passed to set: every text over Alphabet up to MaxLen, and some longer ones.
InputTexts ==
  TextsUpTo(MaxLen) \cup {TextTrue, TextFalse, <<" ", "1">>, <<"1", "a">>, <<"1", "1">>}

ObjIds == {"obj", "anotherObj"}

NoCall == [op |-> "none", cls |-> 0, obj |-> "", name |-> <<>>, value |-> <<>>]

\* tests.cpp:80 and tests.cpp:95, the objects of main.
MainObjects ==
  [o \in ObjIds |-> IF o = "obj" THEN NewObject(Obj, TextObj1)
                    ELSE NewObject(AnotherObj, TextAnotherObj1)]

\* tests.cpp:48-52 and tests.cpp:73-77, the builders after static initialisation.
TestBuilders ==
  [c \in Classes |->
     IF c = Obj THEN
       addPropertyGetterSetter(
         addPropertyGetter(EmptyBuilder, Obj, "string", TextName, "name description",
                           "String", "getName"),
         Obj, "int", TextCount, "count description", "Integer", "getCount", "setCount")
     ELSE IF c = AnotherObj THEN
       addPropertyGetterSetter(
         addBase(EmptyBuilder, Obj),
         AnotherObj, "bool", TextVisible, "visible description", "String",
         "isVisible", "setVisible")
     ELSE EmptyBuilder]

\* The entries those chains passed to insert, in call order.
TestDeclared ==
  [c \in Classes |->
     IF c = Obj THEN
       << MetaEntry(TextName, "name description", "String",
                    Property(Obj, "string", "getName", nullptr)),
          MetaEntry(TextCount, "count description", "Integer",
                    Property(Obj, "int", "getCount", "setCount")) >>
     ELSE IF c = AnotherObj THEN
       << MetaEntry(TextVisible, "visible description", "String",
                    Property(AnotherObj, "bool", "isVisible", "setVisible")) >>
     ELSE <<>>]

RECURSIVE SumLen(_, _)
SumLen(f, S) ==
  IF S = {} THEN 0
  ELSE LET c == CHOOSE x \in S : TRUE IN Len(f[c]) + SumLen(f, S \ {c})

(***************************************************************************)
(* Spec: static initialisation, then main.                                 *)
(***************************************************************************)
Init ==
  /\ builders = [c \in Classes |-> EmptyBuilder]
  /\ declared = [c \in Classes |-> <<>>]
  /\ phase = "init"
  /\ objects = MainObjects
  /\ outValue = <<>>
  /\ outNames = {}
  /\ call = NoCall
  /\ result = FALSE

\* A builder chain of class c calls addBase with the builder of class b.  A base
\* class is defined before the classes derived from it, so the chain of bases
\* never cycles.
AddBase(c, b) ==
  /\ phase = "init"
  /\ b < c
  /\ Len(builders[c].m_bases) < MaxBases
  /\ builders' = [builders EXCEPT ![c] = addBase(@, b)]
  /\ UNCHANGED <<declared, phase, objects, outValue, outNames, call, result>>

\* A builder chain of class c calls the getter-only addProperty.
AddPropertyGetter(c, T, name) ==
  /\ phase = "init"
  /\ SumLen(declared, Classes) < MaxProps
  /\ LET description == DescriptionFor(Len(declared[c]) + 1)
     IN  /\ builders' = [builders EXCEPT ![c] =
               addPropertyGetter(@, c, T, name, description, EditorFor(T), GetterFor(T))]
         /\ declared' = [declared EXCEPT ![c] =
               Append(@, MetaEntry(name, description, EditorFor(T),
                                   Property(c, T, GetterFor(T), nullptr)))]
  /\ UNCHANGED <<phase, objects, outValue, outNames, call, result>>

\* A builder chain of class c calls addProperty with a getter and a setter.
AddPropertyGetterSetter(c, T, name) ==
  /\ phase = "init"
  /\ SumLen(declared, Classes) < MaxProps
  /\ LET description == DescriptionFor(Len(declared[c]) + 1)
     IN  /\ builders' = [builders EXCEPT ![c] =
               addPropertyGetterSetter(@, c, T, name, description, EditorFor(T),
                                       GetterFor(T), SetterFor(T))]
         /\ declared' = [declared EXCEPT ![c] =
               Append(@, MetaEntry(name, description, EditorFor(T),
                                   Property(c, T, GetterFor(T), SetterFor(T))))]
  /\ UNCHANGED <<phase, objects, outValue, outNames, call, result>>

\* Static initialisation is over: the builders are const from here on.
StartMain ==
  /\ phase = "init"
  /\ phase' = "main"
  /\ UNCHANGED <<builders, declared, objects, outValue, outNames, call, result>>

\* main calls getListOfProperties on the builder of class c with an empty set.
ListProperties(c) ==
  /\ phase = "main"
  /\ outNames' = getListOfProperties(builders, c, {})
  /\ call' = [NoCall EXCEPT !.op = "list", !.cls = c]
  /\ UNCHANGED <<builders, declared, phase, objects, outValue, result>>

Next ==
  \/ \E c \in Classes, b \in Classes : AddBase(c, b)
  \/ \E c \in Classes, T \in Types, name \in RegNames : AddPropertyGetter(c, T, name)
  \/ \E c \in Classes, T \in Types, name \in RegNames :
       AddPropertyGetterSetter(c, T, name)
  \/ StartMain
  \/ \E c \in Classes : ListProperties(c)

Spec == Init /\ [][Next]_vars

(***************************************************************************)
(* SpecRun: the program of tests.cpp in main, making get and set calls on   *)
(* one of its two objects.                                                 *)
(***************************************************************************)
InitRun ==
  /\ builders = TestBuilders
  /\ declared = TestDeclared
  /\ phase = "main"
  /\ \E o \in ObjIds : objects = [x \in {o} |-> MainObjects[x]]
  /\ outValue = <<>>
  /\ outNames = {}
  /\ call = NoCall
  /\ result = FALSE

\* main calls o.get(name, &testValue).
Get(o, name) ==
  /\ phase = "main"
  /\ LET r == MetaObject_get(builders, objects[o], name, outValue)
     IN  /\ outValue' = r.out
         /\ result' = r.ok
  /\ call' = [op |-> "get", cls |-> objects[o].cls, obj |-> o, name |-> name,
              value |-> <<>>]
  /\ UNCHANGED <<builders, declared, phase, objects, outNames>>

\* main calls o.set(name, value).
Set(o, name, value) ==
  /\ phase = "main"
  /\ \E r \in MetaObject_set(builders, objects[o], name, value) :
       /\ objects' = [objects EXCEPT ![o] = r.obj]
       /\ result' = r.ok
  /\ call' = [op |-> "set", cls |-> objects[o].cls, obj |-> o, name |-> name,
              value |-> value]
  /\ UNCHANGED <<builders, declared, phase, outValue, outNames>>

NextRun ==
  \/ \E o \in DOMAIN objects, name \in LookupNames : Get(o, name)
  \/ \E o \in DOMAIN objects, name \in LookupNames, value \in InputTexts :
       Set(o, name, value)

SpecRun == InitRun /\ [][NextRun]_vars

(***************************************************************************)
(* What was declared, by exact text of the names.                          *)
(***************************************************************************)
RECURSIVE Reach(_)
\* The classes whose builders are reachable from the builder of c through m_bases.
Reach(c) ==
  {c} \cup UNION {Reach(builders[c].m_bases[i]) : i \in 1..Len(builders[c].m_bases)}

\* The entries passed to addProperty on class c, and their names.
DeclaredEntries(c) == {declared[c][i] : i \in 1..Len(declared[c])}

DeclaredNames(c) == {e.name : e \in DeclaredEntries(c)}

\* The names declared on c or on a class reachable from it.
VisibleDeclaredNames(c) == UNION {DeclaredNames(r) : r \in Reach(c)}

RECURSIVE DfsOrder(_)
RECURSIVE DfsOrderOfBases(_)
\* The classes in the order of name resolution: c, then each base in the
\* order of the addBase calls, each base followed by its own bases.
DfsOrder(c) == <<c>> \o DfsOrderOfBases(builders[c].m_bases)

DfsOrderOfBases(bases) ==
  IF bases = <<>> THEN <<>> ELSE DfsOrder(Head(bases)) \o DfsOrderOfBases(Tail(bases))

SetMax(S) == CHOOSE x \in S : \A y \in S : y <= x

SetMin(S) == CHOOSE x \in S : \A y \in S : x <= y

\* No two different names declared on c have the same hashName.
CollisionFree(c) ==
  \A m \in DeclaredNames(c), n \in DeclaredNames(c) : hashName(m) = hashName(n) => m = n

\* The values of a property's type that the round trip is tried with.
ValuesOf(T) ==
  CASE T = "string" -> {<<>>, <<"a">>, <<"a", " ", "b">>, <<" ">>}
    [] T = "int" -> (0 - 12)..12
    [] T = "bool" -> BOOLEAN

\* A text with no digit in it.
NonNumeric(t) == \A i \in 1..Len(t) : t[i] \notin Digits

\* The entry that name resolves to on the class of the last call, if any.
CalledEntry == getProperty(builders, call.cls, call.name)

(***************************************************************************)
(* The claims.                                                             *)
(***************************************************************************)

\* C1: get and set return false for every name that is not the exact text of a
\* name declared on the object's class or on a class reachable through its
\* bases, names that share a hashName with a declared name included.
C1_UnknownNameFails ==
  (call.op \in {"get", "set"} /\ call.name \notin VisibleDeclaredNames(call.cls))
    => result = FALSE

\* C2: for every read-write property P and every value v of its type,
\* set(P.name, toString(v)) returns true and the get that follows returns true
\* with the text toString(v); strings that are empty or hold whitespace included.
C2_SetThenGetRoundTrips ==
  \A c \in Classes, n \in RegNames :
    LET e == getProperty(builders, c, n)
        obj == NewObject(c, TextObj1)
    IN  (e # <<>> /\ e[1].name = n /\ ~isReadOnly(e[1].prop)) =>
          \A v \in ValuesOf(e[1].prop.Type) :
            LET text == ConvertToString(e[1].prop.Type, v).out
            IN  \A r \in MetaObject_set(builders, obj, n, text) :
                  /\ r.ok
                  /\ MetaObject_get(builders, r.obj, n, <<>>) = [ok |-> TRUE, out |-> text]

\* C3: for a property declared with a getter and no setter, on the declaring
\* class or a class that reaches it through addBase, set returns false for every
\* text and changes nothing.  Stated for the names all of whose declarations
\* visible from the class are getter-only.
C3_ReadOnlyNeverSet ==
  \A c \in Classes, n \in RegNames :
    LET decls == {e \in UNION {DeclaredEntries(r) : r \in Reach(c)} : e.name = n}
        obj == NewObject(c, TextObj1)
    IN  (decls # {} /\ \A e \in decls : isReadOnly(e.prop)) =>
          \A value \in InputTexts :
            \A r \in MetaObject_set(builders, obj, n, value) : ~r.ok /\ r.obj = obj

\* C4: set with a text that cannot be parsed into the property's type (a text
\* with no digit for an int property) returns false and leaves the object as
\* it was.
C4_UnparsableTextRejected ==
  [][ ( /\ call'.op = "set"
        /\ getProperty(builders, call'.cls, call'.name) # <<>>
        /\ getProperty(builders, call'.cls, call'.name)[1].prop.Type = "int"
        /\ ~isReadOnly(getProperty(builders, call'.cls, call'.name)[1].prop)
        /\ NonNumeric(call'.value) )
      => (result' = FALSE /\ objects' = objects) ]_vars

\* C5: within one registry the last addProperty call for a name wins:
\* getProperty(name) returns the entry of the most recent call for that name.
\* Stated for the registries whose declared names have pairwise different
\* hashName values.
C5_LastWriteWins ==
  \A c \in Classes, n \in RegNames :
    LET idx == {i \in 1..Len(declared[c]) : declared[c][i].name = n}
    IN  (idx # {} /\ CollisionFree(c)) =>
          getProperty(builders, c, n) = <<declared[c][SetMax(idx)]>>

\* C6: getProperty returns the first match in the order self, then each base in
\* addBase order, depth first: the entry returned for a name is an entry of that
\* name, declared on the first class in that order on which the name was declared.
C6_FirstMatchInOrder ==
  \A c \in Classes, n \in RegNames :
    LET order == DfsOrder(c)
        hits == {i \in 1..Len(order) : n \in DeclaredNames(order[i])}
        e == getProperty(builders, c, n)
    IN  hits # {} =>
          /\ e # <<>>
          /\ e[1].name = n
          /\ e[1].prop.ClassType = order[SetMin(hits)]

\* C7: names are compared by exact text: an entry returned by getProperty(name)
\* has exactly that name, and a name passed to addProperty is never taken for
\* another name of the same hashName already in the table.
C7_ExactNameMatch ==
  /\ \A c \in Classes, n \in LookupNames :
       LET e == getProperty(builders, c, n) IN e # <<>> => e[1].name = n
  /\ \A c \in Classes : \A n \in DeclaredNames(c) :
       \E k \in DOMAIN builders[c].m_properties : builders[c].m_properties[k].name = n

\* C8: getListOfProperties, started on an empty set, yields exactly the names
\* passed to addProperty on the registry and on every registry reachable through
\* addBase.
C8_ListIsUnionOfDeclared ==
  call.op = "list" => outNames = VisibleDeclaredNames(call.cls)

\* C9: the bool converter emits exactly "true" or "false", reads its own output
\* back to the same value, reads "1" as true and every other text as false, and
\* always reports success; a set and a get of a bool property behave accordingly.
C9_BoolConverter ==
  /\ \A b \in BOOLEAN :
       LET s == MetaConverterBool_ToString(b)
       IN  /\ s.ok
           /\ s.out = (IF b THEN TextTrue ELSE TextFalse)
           /\ ConvertFromString("bool", s.out) = {[ok |-> TRUE, x |-> b]}
  /\ \A t \in InputTexts :
       ConvertFromString("bool", t) = {[ok |-> TRUE, x |-> (t \in {TextTrue, TextOne})]}
  /\ (call.op \in {"get", "set"} /\ CalledEntry # <<>>) =>
       (CalledEntry[1].prop.Type = "bool" =>
          /\ call.op = "set" =>
               /\ result = TRUE
               /\ objects[call.obj].m_visible = (call.value \in {TextTrue, TextOne})
          /\ call.op = "get" =>
               /\ result = TRUE
               /\ outValue = (IF objects[call.obj].m_visible THEN TextTrue ELSE TextFalse))

\* A set of the bool property with the text "1" has stored true.
C9_Witness ==
  /\ call.op = "set"
  /\ call.name = TextVisible
  /\ call.value = TextOne
  /\ result = TRUE
  /\ objects[call.obj].m_visible = TRUE

\* C10: a get or set that returns false changes no member of any object and
\* writes nothing to the caller's output text, and no get or set changes a
\* registry's entries or bases.
C10_FailuresChangeNothing ==
  [][ call'.op \in {"get", "set"} =>
        /\ builders' = builders
        /\ result' = FALSE => (objects' = objects /\ outValue' = outValue) ]_vars

\* A get has failed after an earlier get filled the output text and an earlier
\* set changed m_count.
C10_Witness ==
  /\ call.op = "get"
  /\ result = FALSE
  /\ outValue # <<>>
  /\ objects[call.obj].m_count # 0

====
